---- MODULE Spec2Model ----
(***************************************************************************)
(* Model of the POS back office's stock ledger (handlers/inventory) and    *)
(* transaction builder (handlers/transactions) over a PostgreSQL store.    *)
(*                                                                         *)
(* Every `await db...execute()` of a handler is one step: between two      *)
(* steps any other request may run.  Statements issued on `db` autocommit; *)
(* statements issued on `tx` inside db.transaction are buffered and become *)
(* visible at COMMIT (READ COMMITTED, PostgreSQL's default).               *)
(***************************************************************************)
EXTENDS Integers, Sequences, FiniteSets, TLC

VARIABLES
    stock,      \* stock table: <<product_id, branch_id>> -> row (committed)
    stock0,     \* the stock table as it was initially (history)
    movements,  \* stock_movements table, in insertion order
    task,       \* the stock-ledger requests in flight
    nOps,       \* number of ledger requests issued so far
    addons,     \* addons table: addon id -> row (committed)
    nPriceUpdates,          \* number of updateAddon / deactivateAddon requests so far
    call,                   \* the createTransaction requests
    transactions,           \* transactions table (committed rows)
    transactionItems,       \* transaction_items table (committed rows)
    transactionItemAddons,  \* transaction_item_addons table (committed rows)
    transactionPayments,    \* transaction_payments table (committed rows)
    customers,              \* customers created by createCustomer (committed rows)
    custCall,               \* the createCustomer requests
    now,                    \* the clock read by Date.now()
    cancelled,              \* the cancelTransaction requests that returned true (history)
    lastAddonCall,          \* the last updateAddon / deactivateAddon request and its result
    shifts,                 \* shifts table
    shiftCall,              \* the startShift requests
    nShiftOps               \* number of startShift requests issued so far

ledgerVars == <<movements, task, nOps>>
saleTables == <<transactions, transactionItems, transactionItemAddons, transactionPayments>>
saleVars == <<addons, nPriceUpdates, call, saleTables>>
customerVars == <<customers, custCall, now>>
shiftVars == <<shifts, shiftCall, nShiftOps>>
officeVars == <<cancelled, lastAddonCall, shiftVars>>
vars == <<stock, stock0, ledgerVars, saleVars, customerVars, officeVars>>

----------------------------------------------------------------------------
\* Bounds of the model

NumProducts == 2
NumBranches == 2
NumTasks == 2
MaxOps == 2
MaxQty == 2
MaxArg == 1
MaxNegArg == 1
NumCalls == 2
MaxPriceUpdates == 2
NumCustomerCalls == 3
MaxClock == 1
MaxRandom == 1
NumShiftCalls == 2
MaxShiftOps == 3

Products == 1..NumProducts
\* branches_table rows; NumBranches + 1 is an id no branch has
Branches == 1..NumBranches
BranchIds == 1..(NumBranches + 1)
\* users_table holds users 1 and 2; user 3 does not exist
Users == {1, 2}
UserIds == {1, 2, 3}
Tasks == 1..NumTasks
\* z.number() accepts any number; the integer columns reject non-integers
QtyArgs == ((0 - MaxNegArg)..(0 - 1)) \cup (1..MaxArg)
\* reserveStock and releaseReservedStock have no route: their callers pass a count
CountArgs == 1..MaxArg

Rows == Products \X BranchIds
\* the ledger requests of the model are about product 1
LedgerProducts == {1}

NoRow == [present |-> FALSE, quantity |-> 0, reserved_quantity |-> 0]
StockRow(q, r) == [present |-> TRUE, quantity |-> q, reserved_quantity |-> r]

\* stock rows satisfying the documented row invariant
ValidRows == {StockRow(q, r) : q \in 0..MaxQty, r \in 0..MaxQty} \cap
             {row \in [present : {TRUE}, quantity : 0..MaxQty, reserved_quantity : 0..MaxQty] :
                 row.reserved_quantity <= row.quantity}

MovementTypes == {"IN", "OUT", "TRANSFER", "ADJUSTMENT"}

IdleTask == [op |-> "idle", pc |-> "idle", productId |-> 1, branchId |-> 1,
             toBranchId |-> 1, quantity |-> 0, movementType |-> "IN", userId |-> 1,
             leg |-> 0, updates |-> <<>>, cur |-> NoRow, result |-> "none"]

----------------------------------------------------------------------------
\* updateStock(productId, branchId, quantity, movementType, userId)
\* The task's branchId/quantity/movementType are those of the updateStock call
\* it is currently in (a transfer leg, a bulk entry, or the request itself).

\* the request is over: the worker keeps only what it was, how it ended and in
\* which of its updateStock calls
Finish(t, res) == [IdleTask EXCEPT !.op = task[t].op, !.result = res, !.leg = task[t].leg]

\* what the caller of updateStock does when it returns normally
AfterUpdateStock(t) ==
    CASE task[t].op = "transferStock" /\ task[t].leg = 1 ->
            [task[t] EXCEPT !.pc = "select", !.leg = 2,
                            !.branchId = task[t].toBranchId, !.movementType = "IN"]
      [] task[t].op = "bulkStockUpdate" /\ task[t].leg < Len(task[t].updates) ->
            [task[t] EXCEPT !.pc = "select", !.leg = task[t].leg + 1,
                            !.branchId = task[t].updates[task[t].leg + 1].branch_id,
                            !.quantity = task[t].updates[task[t].leg + 1].quantity]
      [] OTHER -> Finish(t, "ok")

UpdateStockSelect(t) ==
    /\ task[t].pc = "select"
    /\ task' = [task EXCEPT ![t] = [task[t] EXCEPT !.pc = "write",
                    !.cur = stock[<<task[t].productId, task[t].branchId>>]]]
    /\ UNCHANGED <<stock, stock0, officeVars, customerVars, movements, nOps, saleVars>>

\* InitialQuantity taking the quantity for IN only
InitialQuantity_InOnly(movementType, quantity) ==
    IF movementType = "IN" THEN quantity ELSE 0

InitialQuantity(movementType, quantity) ==
    IF movementType \in {"IN", "ADJUSTMENT"} THEN quantity ELSE 0

\* NewQuantity adding the quantity of a TRANSFER as for IN
NewQuantity_TransferIn(current, movementType, quantity) ==
    CASE movementType \in {"IN", "TRANSFER"} -> current + quantity
      [] movementType = "OUT" -> current - quantity
      [] movementType = "ADJUSTMENT" -> quantity
      [] OTHER -> current

NewQuantity(current, movementType, quantity) ==
    CASE movementType = "IN" -> current + quantity
      [] movementType = "OUT" -> current - quantity
      [] movementType = "ADJUSTMENT" -> quantity
      [] OTHER -> current

\* UpdateStockWrite refusing an OUT that takes the last unit on hand
UpdateStockWrite_OffByOne(t) ==
    LET row == <<task[t].productId, task[t].branchId>>
        cur == task[t].cur
        newQuantity == NewQuantity(cur.quantity, task[t].movementType, task[t].quantity)
    IN
    /\ task[t].pc = "write"
    /\ IF ~cur.present
       THEN IF task[t].branchId \notin Branches \/ stock[row].present
            THEN /\ task' = [task EXCEPT ![t] = Finish(t, "StoreError")]
                 /\ UNCHANGED stock
            ELSE /\ stock' = [stock EXCEPT ![row] =
                        StockRow(InitialQuantity(task[t].movementType, task[t].quantity), 0)]
                 /\ task' = [task EXCEPT ![t].pc = "log"]
       ELSE IF task[t].movementType = "OUT" /\ newQuantity <= 0
            THEN /\ task' = [task EXCEPT ![t] = Finish(t, "Insufficient stock")]
                 /\ UNCHANGED stock
            ELSE /\ stock' = [stock EXCEPT ![row].quantity = newQuantity]
                 /\ task' = [task EXCEPT ![t].pc = "log"]
    /\ UNCHANGED <<stock0, officeVars, customerVars, movements, nOps, saleVars>>

UpdateStockWrite(t) ==
    LET row == <<task[t].productId, task[t].branchId>>
        cur == task[t].cur
        newQuantity == NewQuantity(cur.quantity, task[t].movementType, task[t].quantity)
    IN
    /\ task[t].pc = "write"
    /\ IF ~cur.present
       THEN IF task[t].branchId \notin Branches \/ stock[row].present
            THEN \* foreign key on branch_id, or the unique (product, branch) index
                 /\ task' = [task EXCEPT ![t] = Finish(t, "StoreError")]
                 /\ UNCHANGED stock
            ELSE /\ stock' = [stock EXCEPT ![row] =
                        StockRow(InitialQuantity(task[t].movementType, task[t].quantity), 0)]
                 /\ task' = [task EXCEPT ![t].pc = "log"]
       ELSE IF task[t].movementType = "OUT" /\ newQuantity < 0
            THEN /\ task' = [task EXCEPT ![t] = Finish(t, "Insufficient stock")]
                 /\ UNCHANGED stock
            ELSE /\ stock' = [stock EXCEPT ![row].quantity = newQuantity]
                 /\ task' = [task EXCEPT ![t].pc = "log"]
    /\ UNCHANGED <<stock0, officeVars, customerVars, movements, nOps, saleVars>>

\* SignedQuantity logging every movement with the quantity as given
SignedQuantity_Unsigned(movementType, quantity) == quantity

SignedQuantity(movementType, quantity) ==
    IF movementType = "OUT" THEN 0 - quantity ELSE quantity

UpdateStockLog(t) ==
    /\ task[t].pc = "log"
    /\ IF task[t].userId \notin Users
       THEN \* foreign key on user_id
            /\ task' = [task EXCEPT ![t] = Finish(t, "StoreError")]
            /\ UNCHANGED movements
       ELSE /\ movements' = Append(movements,
                    [product_id |-> task[t].productId, branch_id |-> task[t].branchId,
                     movement_type |-> task[t].movementType,
                     quantity |-> SignedQuantity(task[t].movementType, task[t].quantity)])
            /\ task' = [task EXCEPT ![t] = AfterUpdateStock(t)]
    /\ UNCHANGED <<stock, stock0, officeVars, customerVars, nOps, saleVars>>

----------------------------------------------------------------------------
\* the requests

Issue(t, req) ==
    /\ task[t].pc = "idle"
    /\ nOps < MaxOps
    \* requests are handed to the lowest-numbered free worker first
    /\ \A u \in Tasks : u < t => task[u].op # "idle"
    /\ nOps' = nOps + 1
    /\ task' = [task EXCEPT ![t] = req]
    /\ UNCHANGED <<stock, stock0, officeVars, customerVars, movements, saleVars>>

CallUpdateStock(t) ==
    \E p \in LedgerProducts, b \in BranchIds, q \in QtyArgs, m \in MovementTypes, u \in UserIds :
        Issue(t, [IdleTask EXCEPT !.op = "updateStock", !.pc = "select", !.productId = p,
                      !.branchId = b, !.quantity = q, !.movementType = m, !.userId = u])

CallAdjustStock(t) ==
    \E p \in LedgerProducts, b \in BranchIds, q \in QtyArgs, u \in UserIds :
        Issue(t, [IdleTask EXCEPT !.op = "adjustStock", !.pc = "select", !.productId = p,
                      !.branchId = b, !.quantity = q, !.movementType = "ADJUSTMENT",
                      !.userId = u])

CallTransferStock(t) ==
    \E p \in LedgerProducts, from \in Branches, to \in BranchIds, q \in QtyArgs, u \in UserIds :
        Issue(t, [IdleTask EXCEPT !.op = "transferStock", !.pc = "source", !.productId = p,
                      !.branchId = from, !.toBranchId = to, !.quantity = q,
                      !.movementType = "OUT", !.userId = u])

\* TransferStockCheck refusing a transfer of all the source has
TransferStockCheck_OffByOne(t) ==
    LET sourceStock == stock[<<task[t].productId, task[t].branchId>>] IN
    /\ task[t].pc = "source"
    /\ IF ~sourceStock.present \/ sourceStock.quantity <= task[t].quantity
       THEN task' = [task EXCEPT ![t] = Finish(t, "Insufficient stock for transfer")]
       ELSE task' = [task EXCEPT ![t] = [task[t] EXCEPT !.pc = "select", !.leg = 1]]
    /\ UNCHANGED <<stock, stock0, officeVars, customerVars, movements, nOps, saleVars>>

TransferStockCheck(t) ==
    LET sourceStock == stock[<<task[t].productId, task[t].branchId>>] IN
    /\ task[t].pc = "source"
    /\ IF ~sourceStock.present \/ sourceStock.quantity < task[t].quantity
       THEN task' = [task EXCEPT ![t] = Finish(t, "Insufficient stock for transfer")]
       ELSE task' = [task EXCEPT ![t] = [task[t] EXCEPT !.pc = "select", !.leg = 1]]
    /\ UNCHANGED <<stock, stock0, officeVars, customerVars, movements, nOps, saleVars>>

BulkUpdates == {<<>>} \cup
    {<<[branch_id |-> 1, quantity |-> q]>> : q \in QtyArgs} \cup
    {<<[branch_id |-> 1, quantity |-> MaxArg], [branch_id |-> b, quantity |-> MaxArg]>> :
        b \in BranchIds \ {1}}

CallBulkStockUpdate(t) ==
    \E p \in LedgerProducts, ups \in BulkUpdates, u \in UserIds :
        Issue(t, IF ups = <<>>
                 THEN [IdleTask EXCEPT !.op = "bulkStockUpdate", !.productId = p,
                          !.userId = u, !.result = "ok"]
                 ELSE [IdleTask EXCEPT !.op = "bulkStockUpdate", !.pc = "select",
                          !.productId = p, !.userId = u, !.updates = ups, !.leg = 1,
                          !.branchId = ups[1].branch_id, !.quantity = ups[1].quantity,
                          !.movementType = "ADJUSTMENT"])

CallReserveStock(t) ==
    \E p \in LedgerProducts, b \in BranchIds, q \in CountArgs :
        Issue(t, [IdleTask EXCEPT !.op = "reserveStock", !.pc = "rselect", !.productId = p,
                      !.branchId = b, !.quantity = q])

\* ReserveStockSelect refusing a reservation that takes the last available unit
ReserveStockSelect_OffByOne(t) ==
    LET currentStock == stock[<<task[t].productId, task[t].branchId>>]
        availableQuantity == currentStock.quantity - currentStock.reserved_quantity
    IN
    /\ task[t].pc = "rselect" /\ task[t].op = "reserveStock"
    /\ task' = [task EXCEPT ![t] =
            IF ~currentStock.present THEN Finish(t, "Stock record not found")
            ELSE IF availableQuantity <= task[t].quantity
                 THEN Finish(t, "Insufficient available stock for reservation")
                 ELSE [task[t] EXCEPT !.pc = "rwrite", !.cur = currentStock]]
    /\ UNCHANGED <<stock, stock0, officeVars, customerVars, movements, nOps, saleVars>>

\* ReserveStockSelect comparing the request with on-hand instead of available
ReserveStockSelect_IgnoresReserved(t) ==
    LET currentStock == stock[<<task[t].productId, task[t].branchId>>]
    IN
    /\ task[t].pc = "rselect" /\ task[t].op = "reserveStock"
    /\ task' = [task EXCEPT ![t] =
            IF ~currentStock.present THEN Finish(t, "Stock record not found")
            ELSE IF currentStock.quantity < task[t].quantity
                 THEN Finish(t, "Insufficient available stock for reservation")
                 ELSE [task[t] EXCEPT !.pc = "rwrite", !.cur = currentStock]]
    /\ UNCHANGED <<stock, stock0, officeVars, customerVars, movements, nOps, saleVars>>

ReserveStockSelect(t) ==
    LET currentStock == stock[<<task[t].productId, task[t].branchId>>]
        availableQuantity == currentStock.quantity - currentStock.reserved_quantity
    IN
    /\ task[t].pc = "rselect" /\ task[t].op = "reserveStock"
    /\ task' = [task EXCEPT ![t] =
            IF ~currentStock.present THEN Finish(t, "Stock record not found")
            ELSE IF availableQuantity < task[t].quantity
                 THEN Finish(t, "Insufficient available stock for reservation")
                 ELSE [task[t] EXCEPT !.pc = "rwrite", !.cur = currentStock]]
    /\ UNCHANGED <<stock, stock0, officeVars, customerVars, movements, nOps, saleVars>>

ReserveStockWrite(t) ==
    /\ task[t].pc = "rwrite" /\ task[t].op = "reserveStock"
    /\ stock' = [stock EXCEPT ![<<task[t].productId, task[t].branchId>>].reserved_quantity =
                    task[t].cur.reserved_quantity + task[t].quantity]
    /\ task' = [task EXCEPT ![t] = Finish(t, "ok")]
    /\ UNCHANGED <<stock0, officeVars, customerVars, movements, nOps, saleVars>>

CallReleaseReservedStock(t) ==
    \E p \in LedgerProducts, b \in BranchIds, q \in CountArgs :
        Issue(t, [IdleTask EXCEPT !.op = "releaseReservedStock", !.pc = "rselect",
                      !.productId = p, !.branchId = b, !.quantity = q])

\* ReleaseReservedStockSelect refusing to release all that is reserved
ReleaseReservedStockSelect_OffByOne(t) ==
    LET currentStock == stock[<<task[t].productId, task[t].branchId>>] IN
    /\ task[t].pc = "rselect" /\ task[t].op = "releaseReservedStock"
    /\ task' = [task EXCEPT ![t] =
            IF ~currentStock.present THEN Finish(t, "Stock record not found")
            ELSE IF currentStock.reserved_quantity <= task[t].quantity
                 THEN Finish(t, "Cannot release more than reserved quantity")
                 ELSE [task[t] EXCEPT !.pc = "rwrite", !.cur = currentStock]]
    /\ UNCHANGED <<stock, stock0, officeVars, customerVars, movements, nOps, saleVars>>

ReleaseReservedStockSelect(t) ==
    LET currentStock == stock[<<task[t].productId, task[t].branchId>>] IN
    /\ task[t].pc = "rselect" /\ task[t].op = "releaseReservedStock"
    /\ task' = [task EXCEPT ![t] =
            IF ~currentStock.present THEN Finish(t, "Stock record not found")
            ELSE IF currentStock.reserved_quantity < task[t].quantity
                 THEN Finish(t, "Cannot release more than reserved quantity")
                 ELSE [task[t] EXCEPT !.pc = "rwrite", !.cur = currentStock]]
    /\ UNCHANGED <<stock, stock0, officeVars, customerVars, movements, nOps, saleVars>>

ReleaseReservedStockWrite(t) ==
    /\ task[t].pc = "rwrite" /\ task[t].op = "releaseReservedStock"
    /\ stock' = [stock EXCEPT ![<<task[t].productId, task[t].branchId>>].reserved_quantity =
                    task[t].cur.reserved_quantity - task[t].quantity]
    /\ task' = [task EXCEPT ![t] = Finish(t, "ok")]
    /\ UNCHANGED <<stock0, officeVars, customerVars, movements, nOps, saleVars>>

----------------------------------------------------------------------------
\* The transaction builder: createTransaction(input, userId, branchId)
\*
\* Money: amounts held by the handler (JavaScript numbers) are counted in
\* thousandths of the currency unit; amounts stored in numeric(p, 2) columns
\* are counted in hundredths, rounded by the store on insert.

Calls == 1..NumCalls
\* customers_table holds customer 1; addons_table holds addon 1
Customers == {1}
Addons == {1}
AddonIds == {1, 2}
\* customer_id: null; the ids a cart may carry are 0 (no such customer, falsy in
\* JavaScript), 1, and 2 (no such customer)
NoCustomer == 0 - 1

NoAddon == [present |-> FALSE, price |-> 0, is_active |-> FALSE]

RECURSIVE SumSeq(_)
SumSeq(s) == IF s = <<>> THEN 0 ELSE Head(s) + SumSeq(Tail(s))

Min(S) == CHOOSE x \in S : \A y \in S : x <= y

\* a number written (toString) into a numeric(p, 2) column: PostgreSQL rounds
\* to two decimals, ties away from zero
ToNumeric2(m) == IF m >= 0 THEN (m + 5) \div 10 ELSE 0 - ((5 - m) \div 10)

\* parseFloat of a numeric(p, 2) column
ParseNumeric2(c) == c * 10

ItemTotal(item) == item.quantity * item.unit_price - item.discount_amount

AddonTotal(addon, addonPrice) == addon.quantity * addonPrice

\* the first failing lookup of one item: its product, then its addons in order
ItemError(item) ==
    IF item.product_id \notin Products THEN "Product not found"
    ELSE IF \E k \in 1..Len(item.addons) : ~addons[item.addons[k].addon_id].present
         THEN "Addon not found"
         ELSE "none"

\* if (input.customer_id): null and 0 both skip the customer lookup
Provided(customer_id) == customer_id # NoCustomer /\ customer_id # 0

ValidationError(input) ==
    IF Provided(input.customer_id) /\ input.customer_id \notin Customers
    THEN "Customer not found"
    ELSE LET bad == {i \in 1..Len(input.items) : ItemError(input.items[i]) # "none"} IN
         IF bad = {} THEN "none" ELSE ItemError(input.items[Min(bad)])

\* the subtotal accumulated by the validation loop, from the addon prices of now
Subtotal(input) ==
    SumSeq([i \in 1..Len(input.items) |->
        ItemTotal(input.items[i]) +
        SumSeq([k \in 1..Len(input.items[i].addons) |->
            AddonTotal(input.items[i].addons[k],
                       ParseNumeric2(addons[input.items[i].addons[k].addon_id].price))])])

TotalAmount(subtotal, input) == subtotal - input.discount_amount + input.tax_amount

EmptyCart == [customer_id |-> NoCustomer, items |-> <<>>, discount_amount |-> 0,
              tax_amount |-> 0, payments |-> <<>>]

IdleCall == [pc |-> "idle", input |-> EmptyCart, branchId |-> 1, subtotal |-> 0,
             totalAmount |-> 0, i |-> 0, cur |-> NoRow, outcome |-> "none",
             seen |-> <<>>,   \* the stock rows the request has read so far (history)
             txTransaction |-> {}, txItems |-> {}, txAddons |-> {}, txPayments |-> {},
             txStock |-> {}]

InTransaction == {"insertTransaction", "insertItem", "selectStock", "updateStock",
                  "insertPayments", "commit"}

\* the handler rethrows: nothing of the request is left but its outcome
Throw(c, err) == [IdleCall EXCEPT !.pc = "done", !.input = call[c].input,
                     !.branchId = call[c].branchId, !.outcome = err,
                     !.seen = call[c].seen]

\* row locks: an UPDATE inside a transaction locks the row until COMMIT or ROLLBACK
LockedByOther(row, c) ==
    \E d \in Calls : d # c /\ \E w \in call[d].txStock : w.row = row

\* what a SELECT inside the transaction sees: committed rows and its own writes
StockSeen(c, row) ==
    IF \E w \in call[c].txStock : w.row = row
    THEN [stock[row] EXCEPT !.reserved_quantity =
             (CHOOSE w \in call[c].txStock : w.row = row).reserved_quantity]
    ELSE stock[row]

CreateTransaction(c, input, branchId) ==
    /\ call[c].pc = "idle"
    \* requests are handed to the lowest-numbered free worker first
    /\ \A d \in Calls : d < c => call[d].pc # "idle"
    /\ call' = [call EXCEPT ![c] = [IdleCall EXCEPT !.pc = "validate", !.input = input,
                                        !.branchId = branchId]]
    /\ UNCHANGED <<stock, stock0, officeVars, customerVars, ledgerVars, addons, nPriceUpdates, saleTables>>

Validate(c) ==
    LET input == call[c].input
        err == ValidationError(input)
        subtotal == Subtotal(input)
    IN
    /\ call[c].pc = "validate"
    /\ call' = [call EXCEPT ![c] =
            IF err # "none" THEN Throw(c, err)
            ELSE [call[c] EXCEPT !.pc = "insertTransaction", !.subtotal = subtotal,
                                 !.totalAmount = TotalAmount(subtotal, input)]]
    /\ UNCHANGED <<stock, stock0, officeVars, customerVars, ledgerVars, addons, nPriceUpdates, saleTables>>

TransactionRow(c) ==
    [id |-> c, branch_id |-> call[c].branchId, customer_id |-> call[c].input.customer_id,
     subtotal |-> ToNumeric2(call[c].subtotal),
     discount_amount |-> ToNumeric2(call[c].input.discount_amount),
     tax_amount |-> ToNumeric2(call[c].input.tax_amount),
     total_amount |-> ToNumeric2(call[c].totalAmount),
     status |-> "PENDING"]

InsertTransaction(c) ==
    /\ call[c].pc = "insertTransaction"
    /\ call' = [call EXCEPT ![c] =
            IF call[c].input.customer_id # NoCustomer
               /\ call[c].input.customer_id \notin Customers
            THEN \* foreign key on customer_id
                 Throw(c, "StoreError")
            ELSE [call[c] EXCEPT
                    !.txTransaction = {TransactionRow(c)},
                    !.i = 1,
                    !.pc = IF Len(call[c].input.items) = 0
                           THEN "insertPayments" ELSE "insertItem"]]
    /\ UNCHANGED <<stock, stock0, officeVars, customerVars, ledgerVars, addons, nPriceUpdates, saleTables>>

ItemRow(c, i) ==
    LET item == call[c].input.items[i] IN
    [id |-> <<c, i>>, transaction_id |-> c, product_id |-> item.product_id,
     quantity |-> item.quantity,
     unit_price |-> ToNumeric2(item.unit_price),
     discount_amount |-> ToNumeric2(item.discount_amount),
     total_amount |-> ToNumeric2(ItemTotal(item))]

\* the addon price is read again, inside the transaction
ItemAddonRow(c, i, k) ==
    LET addon == call[c].input.items[i].addons[k]
        addonPrice == ParseNumeric2(addons[addon.addon_id].price)
    IN
    [id |-> <<c, i, k>>, transaction_item_id |-> <<c, i>>, addon_id |-> addon.addon_id,
     quantity |-> addon.quantity,
     unit_price |-> ToNumeric2(addonPrice),
     total_price |-> ToNumeric2(AddonTotal(addon, addonPrice))]

InsertItem(c) ==
    LET i == call[c].i IN
    /\ call[c].pc = "insertItem"
    /\ call' = [call EXCEPT ![c] = [call[c] EXCEPT
            !.txItems = @ \cup {ItemRow(c, i)},
            !.txAddons = @ \cup {ItemAddonRow(c, i, k) :
                                    k \in 1..Len(call[c].input.items[i].addons)},
            !.pc = "selectStock"]]
    /\ UNCHANGED <<stock, stock0, officeVars, customerVars, ledgerVars, addons, nPriceUpdates, saleTables>>

\* SelectStock with the comparison off by one
SelectStock_OffByOne(c) ==
    LET item == call[c].input.items[call[c].i]
        currentStock == StockSeen(c, <<item.product_id, call[c].branchId>>)
        newReservedQty == currentStock.reserved_quantity + item.quantity
    IN
    /\ call[c].pc = "selectStock"
    /\ call' = [call EXCEPT ![c] =
            [(IF ~currentStock.present THEN Throw(c, "No stock record found")
              ELSE IF newReservedQty >= currentStock.quantity
                   THEN Throw(c, "Insufficient stock")
                   ELSE [call[c] EXCEPT !.pc = "updateStock", !.cur = currentStock])
             EXCEPT !.seen = Append(call[c].seen, currentStock)]]
    /\ UNCHANGED <<stock, stock0, officeVars, customerVars, ledgerVars, addons, nPriceUpdates, saleTables>>

SelectStock(c) ==
    LET item == call[c].input.items[call[c].i]
        currentStock == StockSeen(c, <<item.product_id, call[c].branchId>>)
        newReservedQty == currentStock.reserved_quantity + item.quantity
    IN
    /\ call[c].pc = "selectStock"
    /\ call' = [call EXCEPT ![c] =
            [(IF ~currentStock.present THEN Throw(c, "No stock record found")
              ELSE IF newReservedQty > currentStock.quantity
                   THEN Throw(c, "Insufficient stock")
                   ELSE [call[c] EXCEPT !.pc = "updateStock", !.cur = currentStock])
             EXCEPT !.seen = Append(call[c].seen, currentStock)]]
    /\ UNCHANGED <<stock, stock0, officeVars, customerVars, ledgerVars, addons, nPriceUpdates, saleTables>>

\* UpdateReserved issued on db instead of tx: the write is committed at once
UpdateReserved_Autocommit(c) ==
    LET item == call[c].input.items[call[c].i]
        row == <<item.product_id, call[c].branchId>>
        newReservedQty == call[c].cur.reserved_quantity + item.quantity
    IN
    /\ call[c].pc = "updateStock"
    /\ ~LockedByOther(row, c)
    /\ stock' = [stock EXCEPT ![row].reserved_quantity = newReservedQty]
    /\ call' = [call EXCEPT ![c] = [call[c] EXCEPT
            !.cur = NoRow,
            !.i = @ + 1,
            !.pc = IF call[c].i < Len(call[c].input.items)
                   THEN "insertItem" ELSE "insertPayments"]]
    /\ UNCHANGED <<stock0, officeVars, customerVars, ledgerVars, addons, nPriceUpdates, saleTables>>

UpdateReserved(c) ==
    LET item == call[c].input.items[call[c].i]
        row == <<item.product_id, call[c].branchId>>
        newReservedQty == call[c].cur.reserved_quantity + item.quantity
    IN
    /\ call[c].pc = "updateStock"
    /\ ~LockedByOther(row, c)
    /\ call' = [call EXCEPT ![c] = [call[c] EXCEPT
            !.txStock = {w \in @ : w.row # row} \cup
                        {[row |-> row, reserved_quantity |-> newReservedQty]},
            !.cur = NoRow,
            !.i = @ + 1,
            !.pc = IF call[c].i < Len(call[c].input.items)
                   THEN "insertItem" ELSE "insertPayments"]]
    /\ UNCHANGED <<stock, stock0, officeVars, customerVars, ledgerVars, addons, nPriceUpdates, saleTables>>

PaymentRow(c, k) ==
    [id |-> <<c, k>>, transaction_id |-> c,
     amount |-> ToNumeric2(call[c].input.payments[k].amount)]

InsertPayments(c) ==
    /\ call[c].pc = "insertPayments"
    /\ call' = [call EXCEPT ![c] = [call[c] EXCEPT
            !.txPayments = {PaymentRow(c, k) : k \in 1..Len(call[c].input.payments)},
            !.pc = "commit"]]
    /\ UNCHANGED <<stock, stock0, officeVars, customerVars, ledgerVars, addons, nPriceUpdates, saleTables>>

\* COMMIT: everything the transaction wrote becomes visible at once
Commit(c) ==
    /\ call[c].pc = "commit"
    /\ transactions' = transactions \cup call[c].txTransaction
    /\ transactionItems' = transactionItems \cup call[c].txItems
    /\ transactionItemAddons' = transactionItemAddons \cup call[c].txAddons
    /\ transactionPayments' = transactionPayments \cup call[c].txPayments
    /\ stock' = [row \in Rows |->
            IF \E w \in call[c].txStock : w.row = row
            THEN [stock[row] EXCEPT !.reserved_quantity =
                     (CHOOSE w \in call[c].txStock : w.row = row).reserved_quantity]
            ELSE stock[row]]
    /\ call' = [call EXCEPT ![c] = Throw(c, "ok")]
    /\ UNCHANGED <<stock0, officeVars, customerVars, ledgerVars, addons, nPriceUpdates>>

\* the store rejects a statement of the transaction (a foreign key, a duplicate
\* transaction_number, a deadlock, a lost connection): ROLLBACK, and the error is rethrown
Abort(c) ==
    /\ call[c].pc \in InTransaction
    /\ call' = [call EXCEPT ![c] = Throw(c, "StoreError")]
    /\ UNCHANGED <<stock, stock0, officeVars, customerVars, ledgerVars, addons, nPriceUpdates, saleTables>>

\* UpdateAddon repricing the item addon rows already stored for the addon
UpdateAddon_Repricing(a, price) ==
    /\ nPriceUpdates < MaxPriceUpdates
    /\ nPriceUpdates' = nPriceUpdates + 1
    /\ lastAddonCall' = [op |-> "updateAddon", addonId |-> a,
                         result |-> IF addons[a].present THEN "ok" ELSE "Addon not found"]
    /\ addons' = IF addons[a].present
                 THEN [addons EXCEPT ![a].price = ToNumeric2(price)]
                 ELSE addons
    /\ transactionItemAddons' =
          {IF ad.addon_id = a
           THEN [ad EXCEPT !.unit_price = ToNumeric2(price),
                           !.total_price = ad.quantity * ToNumeric2(price)]
           ELSE ad : ad \in transactionItemAddons}
    /\ UNCHANGED <<stock, stock0, cancelled, shiftVars, customerVars, ledgerVars, call, transactions, transactionItems,
                   transactionPayments>>

\* updateAddon(addonId, undefined, price)
UpdateAddon(a, price) ==
    /\ nPriceUpdates < MaxPriceUpdates
    /\ nPriceUpdates' = nPriceUpdates + 1
    /\ lastAddonCall' = [op |-> "updateAddon", addonId |-> a,
                         result |-> IF addons[a].present THEN "ok" ELSE "Addon not found"]
    /\ addons' = IF addons[a].present
                 THEN [addons EXCEPT ![a].price = ToNumeric2(price)]
                 ELSE addons
    /\ UNCHANGED <<stock, stock0, cancelled, shiftVars, customerVars, ledgerVars, call, saleTables>>

\* variant: the addon row is deleted
DeactivateAddon_Delete(a) ==
    /\ nPriceUpdates < MaxPriceUpdates
    /\ nPriceUpdates' = nPriceUpdates + 1
    /\ lastAddonCall' = [op |-> "deactivateAddon", addonId |-> a,
                         result |-> IF addons[a].present /\ addons[a].is_active
                                    THEN "true" ELSE "false"]
    /\ addons' = IF addons[a].present /\ addons[a].is_active
                 THEN [addons EXCEPT ![a] = NoAddon]
                 ELSE addons
    /\ UNCHANGED <<stock, stock0, cancelled, shiftVars, customerVars, ledgerVars, call, saleTables>>

\* deactivateAddon(addonId): only an active addon is updated
DeactivateAddon(a) ==
    /\ nPriceUpdates < MaxPriceUpdates
    /\ nPriceUpdates' = nPriceUpdates + 1
    \* result.length > 0
    /\ lastAddonCall' = [op |-> "deactivateAddon", addonId |-> a,
                         result |-> IF addons[a].present /\ addons[a].is_active
                                    THEN "true" ELSE "false"]
    /\ addons' = IF addons[a].present /\ addons[a].is_active
                 THEN [addons EXCEPT ![a].is_active = FALSE]
                 ELSE addons
    /\ UNCHANGED <<stock, stock0, cancelled, shiftVars, customerVars, ledgerVars, call, saleTables>>

CallStep(c) ==
    \/ Validate(c)
    \/ InsertTransaction(c)
    \/ InsertItem(c)
    \/ SelectStock(c)
    \/ UpdateReserved(c)
    \/ InsertPayments(c)
    \/ Commit(c)
    \/ Abort(c)

----------------------------------------------------------------------------
\* createCustomer(input)

CustomerCalls == 1..NumCustomerCalls

\* Math.floor(Math.random() * 1000), of which the model draws the first few
Randoms == 0..MaxRandom

\* `CUST-${timestamp}-${random}` with random padded to three digits: the string
\* determines both numbers, and both numbers determine the string
CustomerCode(timestamp, random) == <<timestamp, random>>

IdleCustomerCall == [pc |-> "idle", customerCode |-> CustomerCode(0, 0), result |-> "none"]

\* the handler reads the clock and draws the random part of the code
CreateCustomer(k) ==
    /\ custCall[k].pc = "idle"
    \* requests are handed to the lowest-numbered free worker first
    /\ \A j \in CustomerCalls : j < k => custCall[j].pc # "idle"
    /\ \E random \in Randoms :
          custCall' = [custCall EXCEPT ![k] =
              [pc |-> "insert", customerCode |-> CustomerCode(now, random),
               result |-> "none"]]
    /\ UNCHANGED <<stock, stock0, officeVars, ledgerVars, saleVars, customers, now>>

\* db.insert(customersTable): customer_code is unique
InsertCustomer(k) ==
    /\ custCall[k].pc = "insert"
    /\ IF \E r \in customers : r.customer_code = custCall[k].customerCode
       THEN /\ custCall' = [custCall EXCEPT ![k].pc = "done", ![k].result = "StoreError"]
            /\ UNCHANGED customers
       ELSE /\ customers' = customers \cup
                    {[id |-> Cardinality(customers) + 1,
                      customer_code |-> custCall[k].customerCode]}
            /\ custCall' = [custCall EXCEPT ![k].pc = "done", ![k].result = "ok"]
    /\ UNCHANGED <<stock, stock0, officeVars, ledgerVars, saleVars, now>>

\* a millisecond passes
Tick ==
    /\ now < MaxClock
    /\ now' = now + 1
    /\ UNCHANGED <<stock, stock0, officeVars, ledgerVars, saleVars, customers, custCall>>

NoAddonCall == [op |-> "none", addonId |-> 0, result |-> "none"]

----------------------------------------------------------------------------
\* startShift(userId, branchId, openingCash)

ShiftCalls == 1..NumShiftCalls

\* a shifts row; end_time and closing_cash are "null" or "set"
ShiftRow(id, userId, branchId, endTime, closingCash) ==
    [id |-> id, user_id |-> userId, branch_id |-> branchId, end_time |-> endTime,
     opening_cash |-> 5000, closing_cash |-> closingCash, total_sales |-> 0]

IdleShiftCall == [pc |-> "idle", userId |-> 1, branchId |-> 1, openingCash |-> 0,
                  result |-> "none"]

\* the request is over: the worker is free again and keeps what it was
FinishShift(k, res) == [shiftCall[k] EXCEPT !.pc = "idle", !.result = res]

ActiveShifts(userId) == {s \in shifts : s.user_id = userId /\ s.end_time = "null"}

StartShift(k, userId, branchId, openingCash) ==
    /\ shiftCall[k].pc = "idle"
    /\ nShiftOps < MaxShiftOps
    \* requests are handed to the lowest-numbered free worker first
    /\ \A j \in ShiftCalls : j < k => shiftCall[j].result # "none"
    /\ nShiftOps' = nShiftOps + 1
    /\ shiftCall' = [shiftCall EXCEPT ![k] =
            [pc |-> "user", userId |-> userId, branchId |-> branchId,
             openingCash |-> openingCash, result |-> "none"]]
    /\ UNCHANGED <<stock, stock0, ledgerVars, saleVars, customerVars, cancelled,
                   lastAddonCall, shifts>>

StartShiftUser(k) ==
    /\ shiftCall[k].pc = "user"
    /\ shiftCall' = [shiftCall EXCEPT ![k] =
            IF shiftCall[k].userId \notin Users THEN FinishShift(k, "User does not exist")
            ELSE [shiftCall[k] EXCEPT !.pc = "branch"]]
    /\ UNCHANGED <<stock, stock0, ledgerVars, saleVars, customerVars, cancelled,
                   lastAddonCall, shifts, nShiftOps>>

StartShiftBranch(k) ==
    /\ shiftCall[k].pc = "branch"
    /\ shiftCall' = [shiftCall EXCEPT ![k] =
            IF shiftCall[k].branchId \notin Branches
            THEN FinishShift(k, "Branch does not exist")
            ELSE [shiftCall[k] EXCEPT !.pc = "active"]]
    /\ UNCHANGED <<stock, stock0, ledgerVars, saleVars, customerVars, cancelled,
                   lastAddonCall, shifts, nShiftOps>>

\* variant: an active shift of any user blocks the request
StartShiftActive_AnyUser(k) ==
    /\ shiftCall[k].pc = "active"
    /\ shiftCall' = [shiftCall EXCEPT ![k] =
            IF \E s \in shifts : s.end_time = "null"
            THEN FinishShift(k, "User already has an active shift")
            ELSE [shiftCall[k] EXCEPT !.pc = "insert"]]
    /\ UNCHANGED <<stock, stock0, ledgerVars, saleVars, customerVars, cancelled,
                   lastAddonCall, shifts, nShiftOps>>

StartShiftActive(k) ==
    /\ shiftCall[k].pc = "active"
    /\ shiftCall' = [shiftCall EXCEPT ![k] =
            IF ActiveShifts(shiftCall[k].userId) # {}
            THEN FinishShift(k, "User already has an active shift")
            ELSE [shiftCall[k] EXCEPT !.pc = "insert"]]
    /\ UNCHANGED <<stock, stock0, ledgerVars, saleVars, customerVars, cancelled,
                   lastAddonCall, shifts, nShiftOps>>

StartShiftInsert(k) ==
    /\ shiftCall[k].pc = "insert"
    /\ shifts' = shifts \cup
          {[ShiftRow(Cardinality(shifts) + 1, shiftCall[k].userId, shiftCall[k].branchId,
                     "null", "null")
              EXCEPT !.opening_cash = ToNumeric2(shiftCall[k].openingCash)]}
    /\ shiftCall' = [shiftCall EXCEPT ![k] = FinishShift(k, "ok")]
    /\ UNCHANGED <<stock, stock0, ledgerVars, saleVars, customerVars, cancelled,
                   lastAddonCall, nShiftOps>>

ShiftStep(k) ==
    \/ \E userId \in UserIds, branchId \in BranchIds : StartShift(k, userId, branchId, 50000)
    \/ StartShiftUser(k)
    \/ StartShiftBranch(k)
    \/ StartShiftActive(k)
    \/ StartShiftInsert(k)

\* cancelTransaction(transactionId, reason): returns true
CancelTransaction(transactionId) ==
    /\ cancelled' = cancelled \cup
          {[transaction_id |-> transactionId,
            stored |-> \E t \in transactions : t.id = transactionId]}
    /\ UNCHANGED <<stock, stock0, ledgerVars, saleVars, customerVars, lastAddonCall,
                   shiftVars>>

InitOfficeVars ==
    /\ cancelled = {}
    /\ lastAddonCall = NoAddonCall
    /\ shifts = {}
    /\ shiftCall = [k \in ShiftCalls |-> IdleShiftCall]
    /\ nShiftOps = 0

InitCustomerVars ==
    /\ customers = {}
    /\ custCall = [k \in CustomerCalls |-> IdleCustomerCall]
    /\ now = 0

----------------------------------------------------------------------------
\* Inputs of the model

Item(p, q, price, discount, ads) ==
    [product_id |-> p, quantity |-> q, unit_price |-> price, discount_amount |-> discount,
     addons |-> ads]

Cart(customer, items, discount, tax, payments) ==
    [customer_id |-> customer, items |-> items, discount_amount |-> discount,
     tax_amount |-> tax, payments |-> payments]

OneAddon == <<[addon_id |-> 1, quantity |-> 2]>>
Cash == <<[amount |-> 1000]>>

\* carts of concurrent sales: what they ask of the stock rows varies
SaleCarts ==
    {Cart(1, <<Item(1, q, 1000, 0, <<>>)>>, 0, 0, Cash) : q \in 1..MaxQty} \cup
    {Cart(NoCustomer, <<Item(1, 1, 1000, 0, OneAddon), Item(1, 1, 1000, 0, <<>>)>>, 0, 0,
          Cash \o Cash),
     Cart(NoCustomer, <<Item(1, 1, 1000, 0, <<>>), Item(2, 1, 1000, 0, <<>>)>>, 0, 0, Cash),
     Cart(NoCustomer, <<Item(2, 1, 1000, 0, <<>>), Item(1, 1, 1000, 0, <<>>)>>, 0, 0, Cash),
     Cart(NoCustomer, <<>>, 0, 0, <<>>),
     Cart(2, <<Item(1, 1, 1000, 0, <<>>)>>, 0, 0, Cash),
     Cart(0, <<Item(1, 1, 1000, 0, <<>>)>>, 0, 0, Cash),
     Cart(2, <<Item(NumProducts + 1, 1, 1000, 0, <<>>)>>, 0, 0, Cash),
     Cart(1, <<Item(1, 1, 1000, 0, <<[addon_id |-> 2, quantity |-> 1]>>),
               Item(NumProducts + 1, 1, 1000, 0, <<>>)>>, 0, 0, Cash),
     Cart(1, <<Item(NumProducts + 1, 1, 1000, 0, <<>>)>>, 0, 0, Cash),
     Cart(1, <<Item(1, 1, 1000, 0, <<[addon_id |-> 2, quantity |-> 1]>>)>>, 0, 0, Cash)}

\* carts of one sale: the amounts vary, down to fractions of a cent
PricedItems ==
    {Item(1, q, price, discount, ads) :
        q \in 1..MaxQty, price \in {4, 1500}, discount \in {0, 500}, ads \in {<<>>, OneAddon}}

PricedCarts ==
    {Cart(NoCustomer, items, discount, tax, Cash) :
        items \in {<<it>> : it \in PricedItems} \cup
                  {<<it, Item(1, 1, 4, 0, <<>>)>> : it \in PricedItems},
        discount \in {0, 1000}, tax \in {0, 4}}

InitAddons == [a \in AddonIds |->
                  IF a \in Addons THEN [present |-> TRUE, price |-> 250, is_active |-> TRUE]
                  ELSE NoAddon]

InitSaleVars ==
    /\ addons = InitAddons
    /\ nPriceUpdates = 0
    /\ call = [c \in Calls |-> IdleCall]
    /\ transactions = {}
    /\ transactionItems = {}
    /\ transactionItemAddons = {}
    /\ transactionPayments = {}

InitLedgerVars ==
    /\ movements = <<>>
    /\ task = [t \in Tasks |-> IdleTask]
    /\ nOps = 0

\* stock of product 1 in branches 1 and 2; the other rows do not exist
LedgerStocks ==
    {s \in [Rows -> ValidRows \cup {NoRow}] :
        \A row \in Rows :
            /\ (row[1] # 1 \/ row[2] \notin Branches) => s[row] = NoRow
            /\ row[2] # 1 => s[row] \in {NoRow, StockRow(1, 0)}}

\* stock of products 1 and 2 in branch 1, where the sales are made
SaleStocks ==
    {s \in [Rows -> ValidRows \cup {NoRow}] :
        \A row \in Rows :
            /\ row[2] # 1 => s[row] = NoRow
            /\ row[1] # 1 => s[row] \in {NoRow, StockRow(1, 0)}
            /\ row[1] > 2 => s[row] = NoRow}

----------------------------------------------------------------------------
\* Concurrent sales in branch 1

Init ==
    /\ stock \in SaleStocks
    /\ stock0 = stock
    /\ InitLedgerVars
    /\ InitSaleVars
    /\ InitCustomerVars
    /\ InitOfficeVars

Next ==
    \E c \in Calls :
        \/ \E input \in SaleCarts : CreateTransaction(c, input, 1)
        \/ CallStep(c)

Spec == Init /\ [][Next]_vars

\* One sale at a time, with addon requests and cancellations around it
NextPricing ==
    \/ \E input \in PricedCarts : CreateTransaction(1, input, 1)
    \/ CallStep(1)
    \/ \E a \in AddonIds, price \in {3000, 1004} : UpdateAddon(a, price)
    \/ \E a \in AddonIds : DeactivateAddon(a)
    \/ \E transactionId \in Calls : CancelTransaction(transactionId)

InitPricing ==
    /\ stock \in {s \in SaleStocks : s[<<1, 1>>] \in {StockRow(MaxQty, 0), StockRow(MaxQty, 1)}
                                     /\ s[<<2, 1>>] = NoRow}
    /\ stock0 = stock
    /\ InitLedgerVars
    /\ InitSaleVars
    /\ InitCustomerVars
    /\ InitOfficeVars

SpecPricing == InitPricing /\ [][NextPricing]_vars

----------------------------------------------------------------------------
\* The stock ledger on its own: one request at a time, handled by worker 1

InitLedger ==
    /\ stock \in LedgerStocks
    /\ stock0 = stock
    /\ InitLedgerVars
    /\ InitSaleVars
    /\ InitCustomerVars
    /\ InitOfficeVars

LedgerStep(t) ==
    \/ CallUpdateStock(t)
    \/ CallAdjustStock(t)
    \/ CallTransferStock(t)
    \/ CallBulkStockUpdate(t)
    \/ CallReserveStock(t)
    \/ CallReleaseReservedStock(t)
    \/ UpdateStockSelect(t)
    \/ UpdateStockWrite(t)
    \/ UpdateStockLog(t)
    \/ TransferStockCheck(t)
    \/ ReserveStockSelect(t)
    \/ ReserveStockWrite(t)
    \/ ReleaseReservedStockSelect(t)
    \/ ReleaseReservedStockWrite(t)

NextLedger == LedgerStep(1)

SpecLedger == InitLedger /\ [][NextLedger]_vars

\* concurrent updateStock requests
NextRace ==
    \E t \in Tasks :
        \/ CallUpdateStock(t)
        \/ UpdateStockSelect(t)
        \/ UpdateStockWrite(t)
        \/ UpdateStockLog(t)

SpecRace == InitLedger /\ [][NextRace]_vars

\* concurrent createCustomer requests
NextCustomers ==
    \/ \E k \in CustomerCalls : CreateCustomer(k) \/ InsertCustomer(k)
    \/ Tick

InitCustomers ==
    /\ stock = [row \in Rows |-> NoRow]
    /\ stock0 = stock
    /\ InitLedgerVars
    /\ InitSaleVars
    /\ InitCustomerVars
    /\ InitOfficeVars

SpecCustomers == InitCustomers /\ [][NextCustomers]_vars

\* shifts that exist before the requests: none, an ended shift of user 1, an
\* active shift of user 2, or both
ShiftTables ==
    {{}, {ShiftRow(1, 1, 1, "set", "set")}, {ShiftRow(1, 2, 1, "null", "null")},
     {ShiftRow(1, 1, 1, "set", "set"), ShiftRow(2, 2, 1, "null", "null")}}

InitShifts ==
    /\ stock = [row \in Rows |-> NoRow]
    /\ stock0 = stock
    /\ InitLedgerVars
    /\ InitSaleVars
    /\ InitCustomerVars
    /\ cancelled = {}
    /\ lastAddonCall = NoAddonCall
    /\ shifts \in ShiftTables
    /\ shiftCall = [k \in ShiftCalls |-> IdleShiftCall]
    /\ nShiftOps = 0

\* startShift requests, one at a time
NextShifts == ShiftStep(1)

SpecShifts == InitShifts /\ [][NextShifts]_vars

\* concurrent startShift requests
NextShiftRace == \E k \in ShiftCalls : ShiftStep(k)

SpecShiftRace == InitShifts /\ [][NextShiftRace]_vars

----------------------------------------------------------------------------
\* The reservation of a sale at branch 1 next to reserveStock at branch 2, on
\* equal stock rows and for the same quantity

\* a stock row of product 1: absent, or present with any quantity and reserved_quantity
EquivRows == {NoRow} \cup {StockRow(q, r) : q \in 0..MaxQty, r \in 0..MaxQty}

EquivCarts == {Cart(NoCustomer, <<Item(1, q, 1000, 0, <<>>)>>, 0, 0, Cash) : q \in 1..MaxQty}

\* reserveStock(1, 2, q) for the quantity q of the sale's item
ReserveLikeSale(t, c) ==
    /\ call[c].pc # "idle"
    /\ nOps = 0
    /\ Issue(t, [IdleTask EXCEPT !.op = "reserveStock", !.pc = "rselect", !.productId = 1,
                     !.branchId = 2, !.quantity = call[c].input.items[1].quantity])

InitEquiv ==
    /\ \E r \in EquivRows :
          stock = [row \in Rows |-> IF row \in {<<1, 1>>, <<1, 2>>} THEN r ELSE NoRow]
    /\ stock0 = stock
    /\ InitLedgerVars
    /\ InitSaleVars
    /\ InitCustomerVars
    /\ InitOfficeVars

NextEquiv ==
    \/ \E input \in EquivCarts : CreateTransaction(1, input, 1)
    \/ CallStep(1)
    \/ ReserveLikeSale(1, 1)
    \/ ReserveStockSelect(1)
    \/ ReserveStockWrite(1)

SpecEquiv == InitEquiv /\ [][NextEquiv]_vars

----------------------------------------------------------------------------
\* The claims

RECURSIVE SetSum(_)
\* the sum of the second components of a set of <<key, value>> pairs
SetSum(S) == IF S = {} THEN 0
             ELSE LET x == CHOOSE y \in S : TRUE IN x[2] + SetSum(S \ {x})

\* units of the row's product held by the transaction items committed at its branch
CommittedQty(row) ==
    SetSum({<<it.id, it.quantity>> : it \in
        {it \in transactionItems :
            /\ it.product_id = row[1]
            /\ \E t \in transactions : t.id = it.transaction_id /\ t.branch_id = row[2]}})

\* units of the row's product a cart asks for
CartQty(input, row, branchId) ==
    IF branchId # row[2] THEN 0
    ELSE SumSeq([k \in 1..Len(input.items) |->
            IF input.items[k].product_id = row[1] THEN input.items[k].quantity ELSE 0])

\* C1: committed transactions never hold more units of a stock row than were
\* available (on-hand minus what was reserved before them): two concurrent sales
\* whose combined demand exceeds availability do not both commit.
C1_NoOversell ==
    \A row \in Rows :
        stock[row].present =>
            stock0[row].reserved_quantity + CommittedQty(row) <= stock[row].quantity

RowsOf(c) ==
    [transactions |-> {r \in transactions : r.id = c},
     items |-> {r \in transactionItems : r.transaction_id = c},
     addons |-> {r \in transactionItemAddons : r.transaction_item_id[1] = c},
     payments |-> {r \in transactionPayments : r.transaction_id = c}]

NumAddons(input) == SumSeq([k \in 1..Len(input.items) |-> Len(input.items[k].addons)])

Committing(c) == call[c].pc = "commit" /\ call'[c].outcome = "ok"

\* C2: createTransaction is all-or-nothing.  A request that has not committed
\* (in flight, or failed at any step) has no row in any of the four tables, and
\* no step other than a COMMIT changes those tables or any stock row; a request
\* that committed has its transaction row, one row per item, per addon and per
\* payment, and its COMMIT stores every reservation it made.
C2_AllOrNothing ==
    /\ [](\A c \in Calls :
            IF call[c].outcome = "ok"
            THEN /\ Cardinality(RowsOf(c).transactions) = 1
                 /\ Cardinality(RowsOf(c).items) = Len(call[c].input.items)
                 /\ Cardinality(RowsOf(c).addons) = NumAddons(call[c].input)
                 /\ Cardinality(RowsOf(c).payments) = Len(call[c].input.payments)
            ELSE /\ RowsOf(c).transactions = {}
                 /\ RowsOf(c).items = {}
                 /\ RowsOf(c).addons = {}
                 /\ RowsOf(c).payments = {})
    /\ [][/\ (\A c \in Calls : ~Committing(c)) => UNCHANGED <<stock, saleTables>>
          /\ \A c \in Calls : Committing(c) =>
                /\ \A w \in call[c].txStock :
                      stock'[w.row].reserved_quantity = w.reserved_quantity
                /\ \A k \in 1..Len(call[c].input.items) :
                      \E w \in call[c].txStock :
                          w.row = <<call[c].input.items[k].product_id, call[c].branchId>>
         ]_vars

\* a sale failed on its second item, after its first item's reservation was made,
\* next to a sale that committed
C2_Witness ==
    \E c, d \in Calls :
        /\ call[c].pc = "done" /\ call[c].outcome = "Insufficient stock"
        /\ Len(call[c].seen) = 2
        /\ call[d].outcome = "ok" /\ Len(call[d].input.items) = 2

Quiescent == \A t \in Tasks : task[t].pc = "idle"

\* C3: after every stock-ledger operation, reserved_quantity <= quantity in every
\* stock row.
C3_ReservedWithinOnHand ==
    Quiescent =>
        \A row \in Rows :
            stock[row].present => stock[row].reserved_quantity <= stock[row].quantity

\* C4: the on-hand quantity of every stock row is never negative.
C4_OnHandNonNegative ==
    \A row \in Rows : stock[row].present => stock[row].quantity >= 0

\* C5: a transferStock whose IN leg failed after its OUT leg succeeded left the
\* stock table and the movement log as they were before it (stated for a transfer
\* that is the only request so far).
C5_FailedTransferLeavesNoTrace ==
    (/\ nOps = 1
     /\ task[1].op = "transferStock" /\ task[1].pc = "idle"
     /\ task[1].leg = 2 /\ task[1].result # "ok")
        => stock = stock0 /\ movements = <<>>

LoggedQty(row) ==
    SumSeq([k \in 1..Len(movements) |->
        IF <<movements[k].product_id, movements[k].branch_id>> = row
        THEN movements[k].quantity ELSE 0])

\* C6: when concurrent updateStock IN/OUT requests on existing rows have all
\* returned successfully, every row's on-hand is its initial on-hand plus the
\* signed quantities of the movements logged for it.
C6_NoLostUpdate ==
    (/\ Quiescent
     /\ Len(movements) = nOps
     /\ \A k \in 1..Len(movements) :
            /\ movements[k].movement_type \in {"IN", "OUT"}
            /\ stock0[<<movements[k].product_id, movements[k].branch_id>>].present)
        => \A row \in Rows : stock[row].quantity = stock0[row].quantity + LoggedQty(row)

ItemsOf(t) == {it \in transactionItems : it.transaction_id = t.id}
ItemAddonsOf(t) ==
    {ad \in transactionItemAddons : \E it \in ItemsOf(t) : ad.transaction_item_id = it.id}

\* C7: the stored subtotal of every transaction is the sum of the stored totals
\* of its items plus the sum of the stored totals of their addons.
C7_SubtotalReconciles ==
    \A t \in transactions :
        t.subtotal = SetSum({<<it.id, it.total_amount>> : it \in ItemsOf(t)})
                   + SetSum({<<ad.id, ad.total_price>> : ad \in ItemAddonsOf(t)})

\* C8: stored totals follow their formulas: total_amount = subtotal -
\* discount_amount + tax_amount for a transaction, quantity * unit_price -
\* discount_amount for an item, quantity * unit_price for an item addon.
C8_TotalsFollowFormulas ==
    /\ \A t \in transactions :
          t.total_amount = t.subtotal - t.discount_amount + t.tax_amount
    /\ \A it \in transactionItems :
          it.total_amount = it.quantity * it.unit_price - it.discount_amount
    /\ \A ad \in transactionItemAddons :
          ad.total_price = ad.quantity * ad.unit_price

Fits(c, k) ==
    /\ call[c].seen[k].present
    /\ call[c].input.items[k].quantity + call[c].seen[k].reserved_quantity
          <= call[c].seen[k].quantity

\* the items before item k of the cart that are of the same product
EarlierSame(input, k) ==
    {j \in 1..(k - 1) : input.items[j].product_id = input.items[k].product_id}

Max(S) == CHOOSE x \in S : \A y \in S : x >= y

\* C9: with every referenced customer, product and addon present and no statement
\* rejected by the store, createTransaction succeeds exactly when every item, in
\* cart order, finds its stock row and fits (quantity + reserved_quantity as read
\* at that point <= on-hand); it stops at the first item that has no row (no-stock
\* error) or does not fit (insufficient-stock error).  The row read for an item is
\* the committed row, with the reservations of the same cart's earlier items
\* added; no stock row is ever created.
C9_SucceedsIffStockFits ==
    /\ [](\A c \in Calls :
            (call[c].pc = "done" /\ ValidationError(call[c].input) = "none"
                /\ call[c].outcome # "StoreError") =>
               LET n == Len(call[c].seen) IN
               /\ n <= Len(call[c].input.items)
               /\ \A k \in 1..(n - 1) : Fits(c, k)
               /\ call[c].outcome = "ok" <=>
                     (n = Len(call[c].input.items) /\ \A k \in 1..n : Fits(c, k))
               /\ call[c].outcome = "No stock record found" <=>
                     (n >= 1 /\ ~call[c].seen[n].present)
               /\ call[c].outcome = "Insufficient stock" <=>
                     (n >= 1 /\ call[c].seen[n].present /\ ~Fits(c, n)))
    /\ [][/\ \A row \in Rows : stock'[row].present = stock[row].present
          /\ \A c \in Calls :
                (call[c].pc = "selectStock" /\ Len(call'[c].seen) = call[c].i) =>
                   LET k == call[c].i
                       row == <<call[c].input.items[k].product_id, call[c].branchId>>
                       earlier == EarlierSame(call[c].input, k)
                       read == call'[c].seen[k]
                   IN
                   /\ read.present = stock[row].present
                   /\ read.quantity = stock[row].quantity
                   /\ read.reserved_quantity =
                         IF earlier = {} THEN stock[row].reserved_quantity
                         ELSE call[c].seen[Max(earlier)].reserved_quantity
                                 + call[c].input.items[Max(earlier)].quantity
         ]_vars

\* one sale was refused its second item of the same product, whose first item
\* had taken the last unit; another found no stock row
C9_Witness ==
    \E c, d \in Calls :
        /\ call[c].pc = "done" /\ call[c].outcome = "Insufficient stock"
        /\ Len(call[c].seen) = 2
        /\ call[c].input.items[1].product_id = call[c].input.items[2].product_id
        /\ call[c].seen[2].reserved_quantity = call[c].seen[2].quantity
        /\ call[d].pc = "done" /\ call[d].outcome = "No stock record found"

\* C10: the COMMIT of a successful createTransaction leaves its transaction
\* PENDING, raises the reserved_quantity of every stock row by the units the cart
\* asks of it, leaves every on-hand quantity unchanged and logs no stock movement.
C10_CommitReservesExactly ==
    [][\A c \in Calls : Committing(c) =>
          /\ \A t \in RowsOf(c).transactions' : t.status = "PENDING"
          /\ \A row \in Rows :
                /\ stock'[row].reserved_quantity = stock[row].reserved_quantity
                      + CartQty(call[c].input, row, call[c].branchId)
                /\ stock'[row].quantity = stock[row].quantity
          /\ movements' = movements
      ]_vars

\* the first reference of a cart that does not exist: the customer, then each
\* item's product followed by that item's addons, in cart order
MissingReference(input) ==
    IF input.customer_id # NoCustomer /\ input.customer_id \notin Customers
    THEN "Customer not found"
    ELSE LET Missing(item) ==
                 IF item.product_id \notin Products THEN "Product not found"
                 ELSE IF \E k \in 1..Len(item.addons) :
                            item.addons[k].addon_id \notin Addons
                      THEN "Addon not found"
                      ELSE "none"
             bad == {i \in 1..Len(input.items) : Missing(input.items[i]) # "none"}
         IN IF bad = {} THEN "none" ELSE Missing(input.items[Min(bad)])

\* C11: a createTransaction whose cart names a customer, product or addon that
\* does not exist never enters the database transaction (it writes nothing and
\* reserves nothing), has no row in any table, and ends with the not-found error
\* of the first missing reference: customer, then per item product, then addons.
C11_MissingReferenceFailsFast ==
    \A c \in Calls :
        (call[c].pc # "idle" /\ MissingReference(call[c].input) # "none") =>
            /\ call[c].pc \notin InTransaction
            /\ call[c].txTransaction = {} /\ call[c].txItems = {}
            /\ call[c].txAddons = {} /\ call[c].txPayments = {} /\ call[c].txStock = {}
            /\ RowsOf(c).transactions = {} /\ RowsOf(c).items = {}
            /\ RowsOf(c).addons = {} /\ RowsOf(c).payments = {}
            /\ call[c].pc = "done" => call[c].outcome = MissingReference(call[c].input)

\* the stock table but for one field of one row
StockExcept(row, field, value) == [stock EXCEPT ![row] = [stock[row] EXCEPT ![field] = value]]

\* C12: reserveStock(p, b, q), one request at a time.  Its check ends the
\* request with the stock-record-not-found error when (p, b) has no row and with
\* the insufficient-available-stock error when reserved_quantity + q > quantity,
\* changing nothing; otherwise its write raises the row's reserved_quantity by
\* exactly q, changes nothing else (no on-hand, no other row, no row created)
\* and the request returns true.
C12_ReserveStock ==
    [][\A t \in Tasks :
          (task[t].op = "reserveStock" /\ task[t].pc # "idle" /\ task'[t] # task[t]) =>
             LET row == <<task[t].productId, task[t].branchId>>
                 q == task[t].quantity
             IN
             IF task[t].pc = "rselect"
             THEN /\ stock' = stock
                  /\ IF ~stock[row].present
                     THEN task'[t].result = "Stock record not found"
                     ELSE IF stock[row].reserved_quantity + q > stock[row].quantity
                          THEN task'[t].result = "Insufficient available stock for reservation"
                          ELSE task'[t].pc = "rwrite"
             ELSE /\ task[t].pc = "rwrite"
                  /\ stock' = StockExcept(row, "reserved_quantity",
                                          stock[row].reserved_quantity + q)
                  /\ task'[t].result = "ok"
      ]_vars

\* a reservation was refused for lack of available stock after an earlier one
\* had been made
C12_Witness ==
    /\ nOps = 2 /\ task[1].op = "reserveStock" /\ task[1].pc = "idle"
    /\ task[1].result = "Insufficient available stock for reservation"
    /\ \E row \in Rows : stock[row].reserved_quantity = stock0[row].reserved_quantity + 1

\* C13: releaseReservedStock(p, b, q), one request at a time.  Its check ends
\* the request with the stock-record-not-found error when (p, b) has no row and
\* with the over-release error when q > reserved_quantity, changing nothing;
\* otherwise its write lowers the row's reserved_quantity by exactly q, changes
\* nothing else (no on-hand, no other row, no row created) and the request
\* returns true.
C13_ReleaseReservedStock ==
    [][\A t \in Tasks :
          (task[t].op = "releaseReservedStock" /\ task[t].pc # "idle"
                /\ task'[t] # task[t]) =>
             LET row == <<task[t].productId, task[t].branchId>>
                 q == task[t].quantity
             IN
             IF task[t].pc = "rselect"
             THEN /\ stock' = stock
                  /\ IF ~stock[row].present
                     THEN task'[t].result = "Stock record not found"
                     ELSE IF q > stock[row].reserved_quantity
                          THEN task'[t].result = "Cannot release more than reserved quantity"
                          ELSE task'[t].pc = "rwrite"
             ELSE /\ task[t].pc = "rwrite"
                  /\ stock' = StockExcept(row, "reserved_quantity",
                                          stock[row].reserved_quantity - q)
                  /\ task'[t].result = "ok"
      ]_vars

\* a release was refused as an over-release after an earlier one had released
\* the last reserved unit
C13_Witness ==
    /\ nOps = 2 /\ task[1].op = "releaseReservedStock" /\ task[1].pc = "idle"
    /\ task[1].result = "Cannot release more than reserved quantity"
    /\ \E row \in Rows : /\ stock0[row].reserved_quantity = 1
                          /\ stock[row].reserved_quantity = 0

\* the task is inside a call of updateStock
InUpdateStock(t) == task[t].pc \in {"select", "write", "log"}

\* C14: updateStock OUT of q on an existing row, one request at a time.  When
\* the row's on-hand is less than q the call ends with the insufficient-stock
\* error at its write, with the stock table and the movement log unchanged (and,
\* being over, it logs nothing later); when on-hand >= q the write lowers the
\* row's on-hand by exactly q and changes nothing else.
C14_OutOnExistingRow ==
    [][\A t \in Tasks :
          (task[t].pc = "write" /\ task[t].movementType = "OUT" /\ task'[t] # task[t]
                /\ stock[<<task[t].productId, task[t].branchId>>].present) =>
             LET row == <<task[t].productId, task[t].branchId>>
                 q == task[t].quantity
             IN
             /\ movements' = movements
             /\ IF stock[row].quantity < q
                THEN /\ task'[t].result = "Insufficient stock" /\ task'[t].pc = "idle"
                     /\ stock' = stock
                ELSE /\ stock' = StockExcept(row, "quantity", stock[row].quantity - q)
                     /\ task'[t].pc = "log"
      ]_vars

\* an OUT was refused for lack of stock after an earlier OUT had taken a unit
C14_Witness ==
    /\ nOps = 2 /\ task[1].op = "updateStock" /\ task[1].pc = "idle"
    /\ task[1].result = "Insufficient stock"
    /\ Len(movements) = 1 /\ movements[1].movement_type = "OUT"
    /\ movements[1].quantity = 0 - 1
    /\ LET row == <<movements[1].product_id, movements[1].branch_id>> IN
          stock[row].quantity = stock0[row].quantity - 1

\* C15: updateStock OUT on a (product, branch) pair without a stock row (the
\* branch exists) ends with the insufficient-stock error, creates no stock row
\* and appends no stock movement.
C15_OutWithoutRowFails ==
    [][\A t \in Tasks :
          (task[t].movementType = "OUT" /\ InUpdateStock(t) /\ task'[t] # task[t]
                /\ task[t].branchId \in Branches /\ task[t].userId \in Users
                /\ ~stock[<<task[t].productId, task[t].branchId>>].present) =>
             /\ stock' = stock
             /\ movements' = movements
             /\ task[t].pc = "write" =>
                   task'[t].pc = "idle" /\ task'[t].result = "Insufficient stock"
      ]_vars

\* C16: updateStock IN and ADJUSTMENT (adjustStock included), one request at a
\* time.  On an existing row the write changes only the row's on-hand: IN adds q
\* to it, ADJUSTMENT sets it to q whatever it was; reserved_quantity is left
\* alone.  Without a row (the branch exists) the write creates the row with
\* on-hand q and reserved_quantity 0.
C16_InAndAdjustment ==
    [][\A t \in Tasks :
          (task[t].pc = "write" /\ task[t].movementType \in {"IN", "ADJUSTMENT"}
                /\ task'[t] # task[t] /\ task[t].branchId \in Branches) =>
             LET row == <<task[t].productId, task[t].branchId>>
                 q == task[t].quantity
             IN
             /\ task'[t].pc = "log"
             /\ stock' = IF ~stock[row].present
                         THEN [stock EXCEPT ![row] = StockRow(q, 0)]
                         ELSE IF task[t].movementType = "IN"
                              THEN StockExcept(row, "quantity", stock[row].quantity + q)
                              ELSE StockExcept(row, "quantity", q)
      ]_vars

\* an ADJUSTMENT created a row with on-hand 1 and an IN of 1 then raised it to 2
C16_Witness ==
    /\ nOps = 2 /\ Quiescent /\ Len(movements) = 2
    /\ movements[1].movement_type = "ADJUSTMENT" /\ movements[2].movement_type = "IN"
    /\ movements[1].branch_id = movements[2].branch_id
    /\ LET row == <<movements[1].product_id, movements[1].branch_id>> IN
          ~stock0[row].present /\ stock[row] = StockRow(2, 0)

\* the record a call of updateStock logs
MovementOf(t) ==
    [product_id |-> task[t].productId, branch_id |-> task[t].branchId,
     movement_type |-> task[t].movementType,
     quantity |-> IF task[t].movementType = "OUT" THEN 0 - task[t].quantity
                  ELSE task[t].quantity]

\* C17: the stock movement log is append-only and complete.  No step changes or
\* removes a logged record; a call of updateStock that returns appends exactly
\* one record, with its last step, carrying -q for OUT and +q otherwise; a call
\* that fails appends none, and between calls nothing is appended.
C17_LogAppendOnly ==
    [][/\ Len(movements') >= Len(movements)
       /\ SubSeq(movements', 1, Len(movements)) = movements
       /\ \A t \in Tasks :
             (InUpdateStock(t) /\ task'[t] # task[t]) =>
                IF task[t].pc = "log"
                   /\ ~(task'[t].pc = "idle" /\ task'[t].result # "ok")
                THEN movements' = Append(movements, MovementOf(t))
                ELSE movements' = movements
       /\ (\A t \in Tasks : ~InUpdateStock(t) \/ task'[t] = task[t]) =>
             movements' = movements
      ]_vars

\* a transfer logged -1 and +1, and a later updateStock that failed added nothing
C17_Witness ==
    /\ nOps = 2 /\ task[1].op = "updateStock" /\ task[1].pc = "idle"
    /\ task[1].result # "ok"
    /\ Len(movements) = 2
    /\ movements[1].movement_type = "OUT" /\ movements[1].quantity = 0 - 1
    /\ movements[2].movement_type = "IN" /\ movements[2].quantity = 1
    /\ movements[1].branch_id # movements[2].branch_id

\* C18: transferStock(p, from, to, q), one request at a time.  Its source check
\* ends the request with the insufficient-stock error, changing nothing, exactly
\* when the source row is absent or holds less than q; a transfer that passed
\* the check, to an existing branch and by an existing user, does not fail.  A
\* transfer that returned true (here the only request so far) has logged exactly
\* two records, OUT -q at the source and IN +q at the destination, every row's
\* on-hand is its initial on-hand (0 for a row that did not exist) plus the
\* quantities logged for it, so the on-hand summed over both branches is
\* unchanged, and no reserved_quantity has changed.
C18_TransferStock ==
    /\ [](( /\ nOps = 1 /\ task[1].op = "transferStock" /\ task[1].pc = "idle"
            /\ task[1].result = "ok") =>
              /\ Len(movements) = 2
              /\ movements[1].movement_type = "OUT" /\ movements[2].movement_type = "IN"
              /\ movements[1].quantity = 0 - movements[2].quantity
              /\ movements[1].product_id = movements[2].product_id
              /\ stock0[<<movements[1].product_id, movements[1].branch_id>>].present
              /\ stock0[<<movements[1].product_id, movements[1].branch_id>>].quantity
                    >= movements[2].quantity
              /\ \A row \in Rows :
                    /\ stock[row].quantity = stock0[row].quantity + LoggedQty(row)
                    /\ stock[row].reserved_quantity = stock0[row].reserved_quantity
                    /\ stock[row].present <=>
                          (stock0[row].present
                             \/ row = <<movements[2].product_id, movements[2].branch_id>>))
    /\ [][\A t \in Tasks :
             (task[t].op = "transferStock" /\ task[t].pc # "idle" /\ task'[t] # task[t]) =>
                LET sourceStock == stock[<<task[t].productId, task[t].branchId>>] IN
                IF task[t].pc = "source"
                THEN /\ stock' = stock /\ movements' = movements
                     /\ IF ~sourceStock.present \/ sourceStock.quantity < task[t].quantity
                        THEN /\ task'[t].pc = "idle"
                             /\ task'[t].result = "Insufficient stock for transfer"
                        ELSE task'[t].pc = "select" /\ task'[t].branchId = task[t].branchId
                ELSE (task[t].toBranchId \in Branches /\ task[t].userId \in Users) =>
                        ~(task'[t].pc = "idle" /\ task'[t].result # "ok")
         ]_vars

\* a transfer of 1 returned true and created the destination row with on-hand 1
C18_Witness ==
    /\ nOps = 1 /\ task[1].op = "transferStock" /\ task[1].pc = "idle"
    /\ task[1].result = "ok"
    /\ \E row \in Rows : ~stock0[row].present /\ stock[row] = StockRow(1, 0)

\* C19: the unit_price of an item addon row is the addon's price when
\* createTransaction writes the row, and it is frozen: every row of the
\* transaction tables stays as it is once stored, and an updateAddon or
\* deactivateAddon request changes no row of those tables, stored or still
\* pending in a running createTransaction.
C19_AddonPriceFrozen ==
    [][/\ transactions \subseteq transactions'
       /\ transactionItems \subseteq transactionItems'
       /\ transactionItemAddons \subseteq transactionItemAddons'
       /\ addons' # addons =>
             /\ UNCHANGED saleTables
             /\ \A c \in Calls : call'[c].txAddons = call[c].txAddons
                                  /\ call'[c].txTransaction = call[c].txTransaction
       /\ \A c \in Calls :
             /\ call[c].txAddons \subseteq call'[c].txAddons \/ call'[c].pc = "done"
             /\ \A ad \in call'[c].txAddons \ call[c].txAddons :
                   /\ ad.unit_price = addons[ad.addon_id].price
                   /\ ad.total_price = ad.quantity * addons[ad.addon_id].price
             /\ Committing(c) =>
                   {ad \in transactionItemAddons' : ad.transaction_item_id[1] = c}
                      = call[c].txAddons
      ]_vars

\* a stored item addon row keeps the 2.50 it was sold at, with its transaction's
\* subtotal, while the addon now has another price
C19_Witness ==
    \E ad \in transactionItemAddons :
        /\ ad.unit_price = 250 /\ ad.total_price = ad.quantity * 250
        /\ addons[ad.addon_id].price # 250
        /\ \E t \in transactions : t.id = ad.transaction_item_id[1] /\ t.subtotal >= 500

\* C20: generated identifiers never collide: every createCustomer call that is
\* over has succeeded, and the customer_code values of the stored customers are
\* pairwise distinct.
C20_CustomerCodesNeverCollide ==
    /\ \A k \in CustomerCalls : custCall[k].pc = "done" => custCall[k].result = "ok"
    /\ \A r1, r2 \in customers : r1.customer_code = r2.customer_code => r1 = r2

\* an item whose discount exceeds quantity * unit_price
OverDiscounted(item) == item.discount_amount > item.quantity * item.unit_price

\* C21: a cart with an item whose discount_amount exceeds quantity * unit_price
\* is rejected before any persistence attempt (the request never enters the
\* database transaction), so no stored transaction item has a negative
\* total_amount.
C21_OverDiscountedItemRejected ==
    /\ \A c \in Calls :
          (\E k \in 1..Len(call[c].input.items) : OverDiscounted(call[c].input.items[k]))
             => call[c].pc \notin InTransaction /\ call[c].outcome # "ok"
    /\ \A it \in transactionItems : it.total_amount >= 0

\* C22: a cart whose grand total subtotal - discount_amount + tax_amount is
\* negative is rejected (stated for carts whose items are not over-discounted):
\* the request does not enter the database transaction with a negative total,
\* and no stored transaction has a negative total_amount.
C22_NegativeTotalRejected ==
    \A c \in Calls :
        (\A k \in 1..Len(call[c].input.items) : ~OverDiscounted(call[c].input.items[k])) =>
            /\ call[c].pc \in InTransaction => call[c].totalAmount >= 0
            /\ \A t \in RowsOf(c).transactions : t.total_amount >= 0

\* C23: once a cancelTransaction of a stored transaction has returned true, the
\* transaction's status is CANCELLED and what it had reserved is released (here
\* the sale is the only one, so every reserved_quantity is back at its initial
\* value).
C23_CancelReleasesReservation ==
    \A x \in cancelled :
        x.stored =>
            /\ \A t \in transactions : t.id = x.transaction_id => t.status = "CANCELLED"
            /\ \A row \in Rows : stock[row].reserved_quantity = stock0[row].reserved_quantity

\* C24: each user has at most one shift whose end_time is null, under any
\* interleaving of concurrent startShift requests.
C24_OneActiveShiftPerUser ==
    \A userId \in Users : Cardinality(ActiveShifts(userId)) <= 1

\* C25: a startShift request that runs alone succeeds exactly when its user
\* exists, its branch exists and the user has no shift with end_time null;
\* on success exactly one row is added, for that user and branch, with
\* end_time null, closing_cash null and total_sales 0; on failure, and on
\* every step before the end of the request, no row is added or changed.
C25_StartShift ==
    [][LET k == 1
           req == shiftCall[k]
           ends == req.pc # "idle" /\ shiftCall'[k].pc = "idle"
           allowed == /\ req.userId \in Users
                      /\ req.branchId \in Branches
                      /\ ~\E s \in shifts : s.user_id = req.userId /\ s.end_time = "null"
       IN  /\ ~ends => shifts' = shifts
           /\ ends =>
                /\ shiftCall'[k].result = "ok" <=> allowed
                /\ shiftCall'[k].result # "ok" => shifts' = shifts
                /\ shiftCall'[k].result = "ok" =>
                      /\ shifts \subseteq shifts'
                      /\ Cardinality(shifts' \ shifts) = 1
                      /\ \A s \in shifts' \ shifts :
                            /\ s.user_id = req.userId
                            /\ s.branch_id = req.branchId
                            /\ s.end_time = "null"
                            /\ s.closing_cash = "null"
                            /\ s.total_sales = 0]_vars

\* user 1 started a shift although user 1 has an ended shift and user 2 an
\* active one, and a further request of user 1 was then turned down
C25_Witness ==
    /\ \E s \in shifts : s.user_id = 1 /\ s.end_time = "set"
    /\ \E s \in shifts : s.user_id = 2 /\ s.end_time = "null"
    /\ \E s \in shifts : s.user_id = 1 /\ s.end_time = "null" /\ s.id = 3
    /\ shiftCall[1].pc = "idle"
    /\ shiftCall[1].userId = 1
    /\ shiftCall[1].result = "User already has an active shift"

\* C26: a deactivateAddon request returns true exactly when the addon exists
\* and is active; afterwards an existing addon is still present, inactive and
\* otherwise as it was; a request that directly follows a deactivateAddon
\* request on the same addon returns false; no other addon row and no row of
\* the transaction tables changes; and no step ever makes an inactive addon
\* active again or removes an addon row.
C26_DeactivateAddonSoftIdempotent ==
    [][LET a == lastAddonCall'.addonId
           deactivates == nPriceUpdates' # nPriceUpdates /\ lastAddonCall'.op = "deactivateAddon"
       IN  /\ deactivates =>
                /\ lastAddonCall'.result = "true" <=> addons[a].present /\ addons[a].is_active
                /\ addons[a].present =>
                      addons'[a] = [addons[a] EXCEPT !.is_active = FALSE]
                /\ ~addons[a].present => addons'[a] = addons[a]
                /\ \A b \in AddonIds \ {a} : addons'[b] = addons[b]
                /\ lastAddonCall.op = "deactivateAddon" /\ lastAddonCall.addonId = a
                      => lastAddonCall'.result = "false"
                /\ UNCHANGED <<saleTables>>
           /\ \A b \in AddonIds :
                /\ addons[b].present => addons'[b].present
                /\ addons[b].present /\ ~addons[b].is_active => ~addons'[b].is_active]_vars

\* addon 1 was deactivated twice in a row after a sale that uses it was
\* stored: the second request returned false and the row is still there
C26_Witness ==
    /\ nPriceUpdates = 2
    /\ lastAddonCall = [op |-> "deactivateAddon", addonId |-> 1, result |-> "false"]
    /\ addons[1].present
    /\ ~addons[1].is_active
    /\ addons[1].price = 250
    /\ \E r \in transactionItemAddons : r.addon_id = 1

\* C27: when the first request is an updateStock call that ended in an error,
\* the stock table and the movement log are exactly as they were before it.
C27_FailedUpdateStockRolledBack ==
    (/\ nOps = 1
     /\ task[1].op = "updateStock"
     /\ task[1].pc = "idle"
     /\ task[1].result \notin {"none", "ok"})
        => stock = stock0 /\ movements = <<>>

\* C28: every stock row's reserved_quantity equals its initial
\* reserved_quantity plus the quantities of all transaction items of committed
\* transactions for its product at its branch.
C28_ReservedMatchesCommittedItems ==
    \A row \in Rows :
        stock[row].reserved_quantity = stock0[row].reserved_quantity + CommittedQty(row)

\* C29: on equal stock rows and for the same quantity, the reservation written
\* inline in createTransaction and reserveStock agree.  Once the sale (not ended
\* by a store failure) and the reserveStock request are both over, the sale
\* succeeded exactly when reserveStock did, each failed for the matching reason
\* (no row, or not enough available), and the two rows have the same quantity
\* and reserved_quantity.
C29_InlineReservationEquivalent ==
    (/\ call[1].pc = "done"
     /\ call[1].outcome # "StoreError"
     /\ task[1].op = "reserveStock"
     /\ task[1].pc = "idle")
        => /\ call[1].outcome = "ok" <=> task[1].result = "ok"
           /\ call[1].outcome = "No stock record found"
                 <=> task[1].result = "Stock record not found"
           /\ call[1].outcome = "Insufficient stock"
                 <=> task[1].result = "Insufficient available stock for reservation"
           /\ stock[<<1, 1>>] = stock[<<1, 2>>]
           /\ stock[<<1, 1>>].quantity = stock0[<<1, 1>>].quantity

\* both reserved the last available unit of a row that already had one reserved
C29_Witness ==
    /\ call[1].pc = "done"
    /\ call[1].outcome = "ok"
    /\ task[1].op = "reserveStock"
    /\ task[1].pc = "idle"
    /\ task[1].result = "ok"
    /\ stock0[<<1, 1>>] = StockRow(2, 1)
    /\ stock[<<1, 1>>] = StockRow(2, 2)
    /\ stock[<<1, 2>>] = StockRow(2, 2)

\* C30: updateStock with movement type TRANSFER, one request at a time.  Its
\* write leaves an existing row's quantity and reserved_quantity as they are
\* and creates an absent row with quantity 0 and reserved_quantity 0, changing
\* no other row; its last step appends one record of type TRANSFER with the
\* quantity as given, and changes no stock row.
C30_DirectTransferKeepsOnHand ==
    [][\A t \in Tasks :
          (task[t].op = "updateStock" /\ task[t].movementType = "TRANSFER"
                /\ task[t].pc # "idle" /\ task'[t] # task[t]) =>
             LET row == <<task[t].productId, task[t].branchId>>
                 q == task[t].quantity
             IN
             CASE task[t].pc = "select" -> stock' = stock /\ movements' = movements
               [] task[t].pc = "write" ->
                     /\ movements' = movements
                     /\ stock[row].present => stock' = stock /\ task'[t].pc = "log"
                     /\ ~stock[row].present /\ row[2] \in Branches =>
                           /\ stock' = [stock EXCEPT ![row] = StockRow(0, 0)]
                           /\ task'[t].pc = "log"
               [] OTHER ->
                     /\ task[t].pc = "log"
                     /\ stock' = stock
                     /\ task[t].userId \in Users =>
                           /\ movements' = Append(movements,
                                 [product_id |-> row[1], branch_id |-> row[2],
                                  movement_type |-> "TRANSFER", quantity |-> q])
                           /\ task'[t].result = "ok"
      ]_vars

\* a direct TRANSFER of one unit returned on an existing row, which is as it
\* was, after an earlier direct TRANSFER had created another row with nothing on hand
C30_Witness ==
    /\ nOps = 2
    /\ task[1].op = "updateStock"
    /\ task[1].pc = "idle"
    /\ task[1].result = "ok"
    /\ Len(movements) = 2
    /\ movements[1] = [product_id |-> 1, branch_id |-> 2, movement_type |-> "TRANSFER",
                       quantity |-> 1]
    /\ movements[2] = [product_id |-> 1, branch_id |-> 1, movement_type |-> "TRANSFER",
                       quantity |-> 1]
    /\ stock0[<<1, 1>>].present
    /\ stock[<<1, 1>>] = stock0[<<1, 1>>]
    /\ ~stock0[<<1, 2>>].present
    /\ stock[<<1, 2>>] = StockRow(0, 0)

====
